---- MODULE Spec2Model ----
(***************************************************************************)
(* Model of the dating mini-app backend (src/app.py): a Flask application  *)
(* whose handlers run one SQL statement at a time through execute_query,   *)
(* each statement in a connection and transaction of its own.  Flask       *)
(* serves requests on threads, so the statements of two requests           *)
(* interleave; a request slot below is one such thread.                    *)
(*                                                                         *)
(* init_db creates users, chats, messages, tags and user_tags.  It does    *)
(* not create likes: it only indexes the table and gives it the foreign    *)
(* keys to users.  The table is therefore taken to exist beforehand, with  *)
(* the columns the queries name and the constraints init_db gives it: the  *)
(* two foreign keys, and no uniqueness constraint.                         *)
(***************************************************************************)
EXTENDS Integers, Sequences, FiniteSets, TLC

\* ---------------------------------------------------------------- bounds
NumUsers == 3          \* user ids are 1..NumUsers
NumConcUsers == 2      \* user ids used by the concurrent specification
NumSlots == 2          \* request threads
MaxChatId == 2         \* no new request starts once the chats serial passed this
MaxMsgId == 3          \* no new request starts once the messages serial passed this
MaxConcMsgId == 1      \* the same, for the concurrent specification
MaxDays == 1           \* the clock advances by whole days up to this many
MaxSecs == 1           \* and by single seconds up to this many past a whole day

\* ------------------------------------------------------ program constants
NumTags == 12          \* rows seeded into tags by init_db
DaySeconds == 86400    \* reset_daily_likes threshold
ProfileLimit == 50     \* LIMIT of the discovery query
IoImported == FALSE    \* the module never imports io, which get_photo uses

UserIds == 1..NumUsers
ConcUsers == 1..NumConcUsers
Slots == 1..NumSlots
Tags == 1..NumTags

VARIABLES
    users,        \* table users: id -> row, for the ids that have a row
    likes,        \* table likes: <<from_user, to_user>> -> number of rows
    chats,        \* table chats: set of rows [id, user1_id, user2_id]
    messages,     \* table messages: set of rows [id, from_user, text, chat_id, created_at]
    user_tags,    \* table user_tags: set of <<user_id, tag_id>>
    nextChatId,   \* chats.id SERIAL
    nextMsgId,    \* messages.id SERIAL
    now,          \* wall clock, seconds
    req,          \* per thread: the request it runs, its position, locals and response
    everMutual,   \* history: unordered pairs whose two like rows existed together
    lastOk,       \* history: id -> fields of the latest create_user answered with success
    acceptedEver, \* history: messages whose send_message was answered with success
    acceptedLive, \* history: those of acceptedEver with neither user deleted since
    disliked      \* history: <<from_user, to_user>> whose like row a dislike removed last

db == <<users, likes, chats, messages, user_tags, nextChatId, nextMsgId>>
hist == <<everMutual, lastOk, acceptedEver, acceptedLive, disliked>>
vars == <<users, likes, chats, messages, user_tags, nextChatId, nextMsgId, now, req,
          everMutual, lastOk, acceptedEver, acceptedLive, disliked>>

\* --------------------------------------------------------------- helpers
Min(a, b) == IF a <= b THEN a ELSE b
Max(a, b) == IF a <= b THEN b ELSE a

\* the pair as the request gave it, unsorted
GivenPair(x, y) == <<x, y>>

\* sorted([x, y]) as used for the chat key
SortedPair(x, y) == <<Min(x, y), Max(x, y)>>

\* a row of users with this id exists
UserExists(u) == \E r \in users : r.id = u
UserRow(u) == CHOOSE r \in users : r.id = u

\* SELECT id FROM chats WHERE user1_id = u1 AND user2_id = u2 (0: no row)
ChatIdOf(u1, u2) ==
    IF \E c \in chats : c.user1_id = u1 /\ c.user2_id = u2
    THEN (CHOOSE c \in chats : c.user1_id = u1 /\ c.user2_id = u2).id
    ELSE 0

\* SELECT * FROM likes WHERE from_user = f AND to_user = t, fetch_one
LikeExists(f, t) == likes[<<f, t>>] > 0

MutualPairs(lk) ==
    {SortedPair(p[1], p[2]) : p \in {q \in DOMAIN lk : lk[q] > 0 /\ lk[<<q[2], q[1]>>] > 0}}

EmptyLikes == [p \in UserIds \X UserIds |-> 0]

NoRes == [status |-> 0]
NoHist == [ok_start |-> FALSE, disturbed |-> FALSE]
Idle == [op |-> "none", pc |-> "done", valid |-> TRUE, args |-> <<>>, loc |-> <<>>,
         h |-> NoHist, res |-> NoRes]

\* ------------------------------------------------------------------ Init
Init ==
    /\ users = {}
    /\ likes = EmptyLikes
    /\ chats = {}
    /\ messages = {}
    /\ user_tags = {}
    /\ nextChatId = 1
    /\ nextMsgId = 1
    /\ now = 0
    /\ req = [s \in Slots |-> Idle]
    /\ everMutual = {}
    /\ lastOk = {}
    /\ acceptedEver = {}
    /\ acceptedLive = {}
    /\ disliked = {}

\* -------------------------------------------------------------- requests
\* POST /api/like {from_user, to_user, dislike}
LikeReq(f, t, d, v) ==
    [op |-> "like_profile", pc |-> "like_start", valid |-> v,
     args |-> [from_user |-> f, to_user |-> t, dislike |-> d],
     loc |-> [existing |-> FALSE, mutual |-> FALSE],
     h |-> [ok_start |-> UserExists(f) /\ UserExists(t), disturbed |-> FALSE],
     res |-> NoRes]

\* POST /api/message {from_user, to_user, text}
MessageReq(f, t, x, v) ==
    [op |-> "send_message", pc |-> "sm_select", valid |-> v,
     args |-> [from_user |-> f, to_user |-> t, text |-> x],
     loc |-> [chat |-> 0], h |-> NoHist, res |-> NoRes]

\* DELETE /api/user/<user_id>
DeleteReq(u, v) ==
    [op |-> "delete_user", pc |-> "du_delete", valid |-> v,
     args |-> [user_id |-> u], loc |-> <<>>, h |-> NoHist, res |-> NoRes]

\* POST /api/user {id, name, age, city, bio, photo_data, tag_ids}
CreateReq(u, nm, ag, ct, bi, ph, tg, v) ==
    [op |-> "create_user", pc |-> "cu_upsert", valid |-> v,
     args |-> [id |-> u, name |-> nm, age |-> ag, city |-> ct, bio |-> bi,
               photo_data |-> ph, tag_ids |-> tg],
     loc |-> [i |-> 1], h |-> NoHist, res |-> NoRes]

\* a thread takes a request when it has answered the one before
Begin(s, r, maxMsg) ==
    /\ req[s].pc = "done"
    /\ nextChatId <= MaxChatId
    /\ nextMsgId <= maxMsg
    /\ req' = [req EXCEPT ![s] = r]
    /\ UNCHANGED <<db, now, hist>>

\* the handler returns res
Answer(rq, s, r) == [rq EXCEPT ![s].pc = "done", ![s].res = r]

\* a dislike or a user deletion happened while these like requests ran or
\* were still held
Disturb(rq) ==
    [s \in Slots |-> IF rq[s].op = "like_profile"
                     THEN [rq[s] EXCEPT !.h.disturbed = TRUE] ELSE rq[s]]

\* ----------------------------------------------------------- like_profile
\* dislike: DELETE FROM likes; otherwise the SELECT of the own like row
LikeStart(s) ==
    LET a == req[s].args IN
    /\ req[s].op = "like_profile" /\ req[s].pc = "like_start"
    /\ IF a.dislike
       THEN /\ likes' = [likes EXCEPT ![<<a.from_user, a.to_user>>] = 0]
            /\ disliked' = IF LikeExists(a.from_user, a.to_user)
                           THEN disliked \cup {<<a.from_user, a.to_user>>}
                           ELSE disliked
            /\ req' = Disturb(Answer(req, s, [status |-> 200, match |-> FALSE]))
       ELSE /\ req' = [req EXCEPT ![s].loc.existing = LikeExists(a.from_user, a.to_user),
                                  ![s].pc = IF LikeExists(a.from_user, a.to_user)
                                            THEN "like_mutual" ELSE "like_insert"]
            /\ UNCHANGED <<likes, disliked>>
    /\ UNCHANGED <<users, chats, messages, user_tags, nextChatId, nextMsgId, now,
                   everMutual, lastOk, acceptedEver, acceptedLive>>

\* mutant: the INSERT runs without commit=True and is rolled back when the
\* connection closes
LikeInsertUncommitted(s) ==
    LET a == req[s].args IN
    /\ req[s].op = "like_profile" /\ req[s].pc = "like_insert"
    /\ IF UserExists(a.from_user) /\ UserExists(a.to_user)
       THEN req' = [req EXCEPT ![s].pc = "like_mutual"]
       ELSE req' = Answer(req, s, [status |-> 400, match |-> FALSE])
    /\ UNCHANGED <<db, now, hist>>

\* INSERT INTO likes (from_user, to_user); both columns reference users(id)
LikeInsert(s) ==
    LET a == req[s].args IN
    /\ req[s].op = "like_profile" /\ req[s].pc = "like_insert"
    /\ IF UserExists(a.from_user) /\ UserExists(a.to_user)
       THEN /\ likes' = [likes EXCEPT ![<<a.from_user, a.to_user>>] = @ + 1]
            /\ req' = [req EXCEPT ![s].pc = "like_mutual"]
            /\ everMutual' = everMutual \cup MutualPairs(likes')
            /\ disliked' = disliked \ {<<a.from_user, a.to_user>>}
       ELSE /\ req' = Answer(req, s, [status |-> 400, match |-> FALSE])
            /\ UNCHANGED <<likes, everMutual, disliked>>
    /\ UNCHANGED <<users, chats, messages, user_tags, nextChatId, nextMsgId, now,
                   lastOk, acceptedEver, acceptedLive>>

\* SELECT of the reverse like row
LikeMutual(s) ==
    LET a == req[s].args IN
    /\ req[s].op = "like_profile" /\ req[s].pc = "like_mutual"
    /\ IF LikeExists(a.to_user, a.from_user)
       THEN req' = [req EXCEPT ![s].loc.mutual = TRUE, ![s].pc = "like_chat"]
       ELSE req' = Answer(req, s, [status |-> 200, match |-> FALSE])
    /\ UNCHANGED <<db, now, hist>>

\* INSERT INTO chats (user1_id, user2_id) ... ON CONFLICT DO NOTHING
LikeChat(s) ==
    LET a == req[s].args
        p == SortedPair(a.from_user, a.to_user)
    IN
    /\ req[s].op = "like_profile" /\ req[s].pc = "like_chat"
    /\ IF ChatIdOf(p[1], p[2]) # 0
       THEN /\ req' = Answer(req, s, [status |-> 200, match |-> TRUE])
            /\ UNCHANGED <<chats, nextChatId>>
       ELSE IF UserExists(p[1]) /\ UserExists(p[2])
       THEN /\ chats' = chats \cup {[id |-> nextChatId, user1_id |-> p[1], user2_id |-> p[2]]}
            /\ nextChatId' = nextChatId + 1
            /\ req' = Answer(req, s, [status |-> 200, match |-> TRUE])
       ELSE /\ req' = Answer(req, s, [status |-> 400, match |-> FALSE])
            /\ UNCHANGED <<chats, nextChatId>>
    /\ UNCHANGED <<users, likes, messages, user_tags, nextMsgId, now, hist>>

\* ----------------------------------------------------------- send_message
\* SELECT id FROM chats for the sorted pair
SendSelect(s) ==
    LET a == req[s].args
        p == SortedPair(a.from_user, a.to_user)
    IN
    /\ req[s].op = "send_message" /\ req[s].pc = "sm_select"
    /\ req' = [req EXCEPT ![s].loc.chat = ChatIdOf(p[1], p[2]),
                          ![s].pc = IF ChatIdOf(p[1], p[2]) = 0 THEN "sm_create"
                                    ELSE "sm_insert"]
    /\ UNCHANGED <<db, now, hist>>

\* INSERT INTO chats (user1_id, user2_id): UNIQUE(user1_id, user2_id), both
\* columns reference users(id); the answer to a failure carries str(e)
SendCreate(s) ==
    LET a == req[s].args
        p == SortedPair(a.from_user, a.to_user)
    IN
    /\ req[s].op = "send_message" /\ req[s].pc = "sm_create"
    /\ IF ChatIdOf(p[1], p[2]) = 0 /\ UserExists(p[1]) /\ UserExists(p[2])
       THEN /\ chats' = chats \cup {[id |-> nextChatId, user1_id |-> p[1], user2_id |-> p[2]]}
            /\ nextChatId' = nextChatId + 1
            /\ req' = [req EXCEPT ![s].pc = "sm_reselect"]
       ELSE /\ req' = Answer(req, s, [status |-> 400,
                                      error |-> IF ChatIdOf(p[1], p[2]) # 0
                                                THEN "UniqueViolation"
                                                ELSE "ForeignKeyViolation"])
            /\ UNCHANGED <<chats, nextChatId>>
    /\ UNCHANGED <<users, likes, messages, user_tags, nextMsgId, now, hist>>

\* the second SELECT id FROM chats; chat['id'] raises when no row came back
SendReselect(s) ==
    LET a == req[s].args
        p == SortedPair(a.from_user, a.to_user)
    IN
    /\ req[s].op = "send_message" /\ req[s].pc = "sm_reselect"
    /\ IF ChatIdOf(p[1], p[2]) = 0
       THEN req' = Answer(req, s, [status |-> 400, error |-> "TypeError"])
       ELSE req' = [req EXCEPT ![s].loc.chat = ChatIdOf(p[1], p[2]), ![s].pc = "sm_insert"]
    /\ UNCHANGED <<db, now, hist>>

\* INSERT INTO messages (from_user, chat_id, text): from_user references
\* users(id), chat_id references chats(id)
SendInsert(s) ==
    LET a == req[s].args
        p == SortedPair(a.from_user, a.to_user)
        m == [id |-> nextMsgId, from_user |-> a.from_user, text |-> a.text,
              chat_id |-> req[s].loc.chat, created_at |-> nextMsgId]
    IN
    /\ req[s].op = "send_message" /\ req[s].pc = "sm_insert"
    /\ IF UserExists(a.from_user) /\ (\E c \in chats : c.id = req[s].loc.chat)
       THEN /\ messages' = messages \cup {m}
            /\ nextMsgId' = nextMsgId + 1
            /\ req' = Answer(req, s, [status |-> 200])
            /\ acceptedEver' = acceptedEver \cup {[msg |-> m, u1 |-> p[1], u2 |-> p[2]]}
            /\ acceptedLive' = acceptedLive \cup {[msg |-> m, u1 |-> p[1], u2 |-> p[2]]}
       ELSE /\ req' = Answer(req, s, [status |-> 400, error |-> "ForeignKeyViolation"])
            /\ UNCHANGED <<messages, nextMsgId, acceptedEver, acceptedLive>>
    /\ UNCHANGED <<users, likes, chats, user_tags, nextChatId, now, everMutual, lastOk,
                   disliked>>

\* ------------------------------------------------------------ delete_user
\* DELETE FROM users WHERE id = u, with the ON DELETE CASCADE of likes,
\* chats, messages and user_tags
DeleteUser(s) ==
    LET u == req[s].args.user_id
        keptChats == {c \in chats : c.user1_id # u /\ c.user2_id # u}
    IN
    /\ req[s].op = "delete_user" /\ req[s].pc = "du_delete"
    /\ users' = {r \in users : r.id # u}
    /\ likes' = [p \in DOMAIN likes |-> IF p[1] = u \/ p[2] = u THEN 0 ELSE likes[p]]
    /\ chats' = keptChats
    /\ messages' = {m \in messages : m.from_user # u /\ m.chat_id \in {c.id : c \in keptChats}}
    /\ user_tags' = {t \in user_tags : t[1] # u}
    /\ acceptedLive' = {m \in acceptedLive : m.u1 # u /\ m.u2 # u}
    /\ disliked' = {p \in disliked : p[1] # u /\ p[2] # u}
    /\ req' = Disturb(Answer(req, s, [status |-> 200]))
    /\ UNCHANGED <<nextChatId, nextMsgId, now, everMutual, lastOk, acceptedEver>>

\* ------------------------------------------------------------ photo data
\* the base64 alphabet; a character's value is its position minus one
B64Chars ==
    <<"A","B","C","D","E","F","G","H","I","J","K","L","M","N","O","P",
      "Q","R","S","T","U","V","W","X","Y","Z","a","b","c","d","e","f",
      "g","h","i","j","k","l","m","n","o","p","q","r","s","t","u","v",
      "w","x","y","z","0","1","2","3","4","5","6","7","8","9","+","/">>

IsB64(c) == \E i \in 1..Len(B64Chars) : B64Chars[i] = c
B64Val(c) == (CHOOSE i \in 1..Len(B64Chars) : B64Chars[i] = c) - 1

\* base64.b64decode(s) without validation: characters outside the alphabet
\* are skipped, "=" ends the data once it completes a quad, and data that
\* stops inside a quad raises.  quad is the position in the quad, left the
\* bits carried over, pads the "=" seen in a row.
RECURSIVE B64Run(_, _, _, _, _, _)
B64Run(s, i, quad, left, pads, out) ==
    IF i > Len(s)
    THEN [ok |-> quad = 0, bytes |-> out]
    ELSE IF s[i] = "="
    THEN IF quad >= 2 /\ quad + pads + 1 >= 4
         THEN [ok |-> TRUE, bytes |-> out]
         ELSE B64Run(s, i + 1, quad, left, IF quad >= 2 THEN pads + 1 ELSE pads, out)
    ELSE IF ~IsB64(s[i])
    THEN B64Run(s, i + 1, quad, left, pads, out)
    ELSE LET v == B64Val(s[i]) IN
         CASE quad = 0 -> B64Run(s, i + 1, 1, v, 0, out)
           [] quad = 1 -> B64Run(s, i + 1, 2, v % 16, 0,
                                 Append(out, (left * 4 + v \div 16) % 256))
           [] quad = 2 -> B64Run(s, i + 1, 3, v % 4, 0,
                                 Append(out, (left * 16 + v \div 4) % 256))
           [] OTHER    -> B64Run(s, i + 1, 0, 0, 0,
                                 Append(out, (left * 64 + v) % 256))

b64decode(s) == B64Run(s, 1, 0, 0, 0, <<>>)

\* photo_base64.split(',')[1] when the text holds a comma
HasComma(s) == \E i \in 1..Len(s) : s[i] = ","
FirstComma(s) == CHOOSE i \in 1..Len(s) : s[i] = "," /\ \A j \in 1..(i - 1) : s[j] # ","
AfterComma(s) ==
    LET rest == SubSeq(s, FirstComma(s) + 1, Len(s)) IN
    IF HasComma(rest) THEN SubSeq(rest, 1, FirstComma(rest) - 1) ELSE rest

StripPrefix(s) == IF HasComma(s) THEN AfterComma(s) ELSE s

\* column photo_data: NULL or bytes
NullPhoto == [null |-> TRUE, bytes |-> <<>>]
PhotoOf(b) == [null |-> FALSE, bytes |-> b]

\* photo_data of a request: absent, or a text
NoPhotoArg == [given |-> FALSE, text |-> <<>>]
PhotoArg(t) == [given |-> TRUE, text |-> t]

\* ------------------------------------------------------------ create_user
\* the decoded photo and the INSERT ... ON CONFLICT (id) DO UPDATE
Upsert(a, photo) ==
    IF UserExists(a.id)
    THEN {IF r.id = a.id
          THEN [r EXCEPT !.name = a.name, !.age = a.age, !.city = a.city,
                         !.bio = a.bio, !.photo_data = photo]
          ELSE r : r \in users}
    ELSE users \cup {[id |-> a.id, name |-> a.name, age |-> a.age, city |-> a.city,
                      bio |-> a.bio, photo_data |-> photo,
                      daily_likes_used |-> 0, last_like_reset |-> now]}

\* the history of create_user calls answered with success
Succeeded(a) ==
    {r \in lastOk : r.id # a.id}
        \cup {[id |-> a.id, name |-> a.name, age |-> a.age, city |-> a.city, bio |-> a.bio]}

CreateUpsert(s) ==
    LET a == req[s].args
        truthy == a.photo_data.given /\ a.photo_data.text # <<>>
        dec == b64decode(StripPrefix(a.photo_data.text))
    IN
    /\ req[s].op = "create_user" /\ req[s].pc = "cu_upsert"
    /\ IF truthy /\ ~dec.ok
       THEN /\ req' = Answer(req, s, [status |-> 400])
            /\ UNCHANGED <<users, lastOk>>
       ELSE /\ users' = Upsert(a, IF truthy THEN PhotoOf(dec.bytes) ELSE NullPhoto)
            /\ IF a.tag_ids # <<>>
               THEN /\ req' = [req EXCEPT ![s].pc = "cu_tagdel"]
                    /\ UNCHANGED lastOk
               ELSE /\ req' = Answer(req, s, [status |-> 200])
                    /\ lastOk' = Succeeded(a)
    /\ UNCHANGED <<likes, chats, messages, user_tags, nextChatId, nextMsgId, now,
                   everMutual, acceptedEver, acceptedLive, disliked>>

\* DELETE FROM user_tags WHERE user_id = id
CreateTagDelete(s) ==
    LET a == req[s].args IN
    /\ req[s].op = "create_user" /\ req[s].pc = "cu_tagdel"
    /\ user_tags' = {t \in user_tags : t[1] # a.id}
    /\ req' = [req EXCEPT ![s].pc = "cu_taginsert", ![s].loc.i = 1]
    /\ UNCHANGED <<users, likes, chats, messages, nextChatId, nextMsgId, now, hist>>

\* INSERT INTO user_tags (user_id, tag_id): PRIMARY KEY (user_id, tag_id),
\* user_id references users(id), tag_id references tags(id)
CreateTagInsert(s) ==
    LET a == req[s].args
        i == req[s].loc.i
        t == a.tag_ids[i]
    IN
    /\ req[s].op = "create_user" /\ req[s].pc = "cu_taginsert"
    /\ IF UserExists(a.id) /\ t \in Tags /\ <<a.id, t>> \notin user_tags
       THEN /\ user_tags' = user_tags \cup {<<a.id, t>>}
            /\ IF i = Len(a.tag_ids)
               THEN /\ req' = Answer(req, s, [status |-> 200])
                    /\ lastOk' = Succeeded(a)
               ELSE /\ req' = [req EXCEPT ![s].loc.i = i + 1]
                    /\ UNCHANGED lastOk
       ELSE /\ req' = Answer(req, s, [status |-> 400])
            /\ UNCHANGED <<user_tags, lastOk>>
    /\ UNCHANGED <<users, likes, chats, messages, nextChatId, nextMsgId, now,
                   everMutual, acceptedEver, acceptedLive, disliked>>

\* ------------------------------------------------- upload_photo, get_photo
\* POST /api/upload-photo {user_id, photo_data}
UploadReq(u, ph, v) ==
    [op |-> "upload_photo", pc |-> "up_update", valid |-> v,
     args |-> [user_id |-> u, photo_data |-> ph], loc |-> <<>>, h |-> NoHist,
     res |-> NoRes]

\* GET /api/photo/<user_id>
PhotoReq(u, v) ==
    [op |-> "get_photo", pc |-> "ph_select", valid |-> v,
     args |-> [user_id |-> u], loc |-> <<>>, h |-> NoHist, res |-> NoRes]

\* UPDATE users SET photo_data = bytes WHERE id = user_id
UploadPhoto(s) ==
    LET a == req[s].args
        dec == b64decode(StripPrefix(a.photo_data.text))
    IN
    /\ req[s].op = "upload_photo" /\ req[s].pc = "up_update"
    /\ IF a.photo_data.given /\ dec.ok
       THEN /\ users' = {IF r.id = a.user_id
                         THEN [r EXCEPT !.photo_data = PhotoOf(dec.bytes)] ELSE r : r \in users}
            /\ req' = Answer(req, s, [status |-> 200])
       ELSE /\ req' = Answer(req, s, [status |-> 400])
            /\ UNCHANGED users
    /\ UNCHANGED <<likes, chats, messages, user_tags, nextChatId, nextMsgId, now, hist>>

\* SELECT photo_data, then send_file(io.BytesIO(...)): a NameError without
\* the import, which the bare except turns into the 404
GetPhotoResponse(u) ==
    IF UserExists(u) /\ ~UserRow(u).photo_data.null /\ UserRow(u).photo_data.bytes # <<>>
    THEN IF IoImported
         THEN [status |-> 200, body |-> UserRow(u).photo_data.bytes]
         ELSE [status |-> 404, body |-> <<>>]
    ELSE [status |-> 404, body |-> <<>>]

GetPhoto(s) ==
    /\ req[s].op = "get_photo" /\ req[s].pc = "ph_select"
    /\ req' = Answer(req, s, GetPhotoResponse(req[s].args.user_id))
    /\ UNCHANGED <<db, now, hist>>

\* ----------------------------------------------------------- get_profiles
\* GET /api/profiles/<user_id>?age_min=&age_max=&city=
ProfilesReq(u, lo, hi, ct, v) ==
    [op |-> "get_profiles", pc |-> "gp_reset_select", valid |-> v,
     args |-> [user_id |-> u, age_min |-> lo, age_max |-> hi, city |-> ct],
     loc |-> [user |-> {}, interacted |-> {}, profiles |-> <<>>], h |-> NoHist,
     res |-> NoRes]

UpperChars ==
    <<"A","B","C","D","E","F","G","H","I","J","K","L","M",
      "N","O","P","Q","R","S","T","U","V","W","X","Y","Z">>
LowerChars ==
    <<"a","b","c","d","e","f","g","h","i","j","k","l","m",
      "n","o","p","q","r","s","t","u","v","w","x","y","z">>

LowerChar(c) ==
    IF \E i \in 1..Len(UpperChars) : UpperChars[i] = c
    THEN LowerChars[CHOOSE i \in 1..Len(UpperChars) : UpperChars[i] = c]
    ELSE c
Lower(t) == [i \in 1..Len(t) |-> LowerChar(t[i])]

\* value ILIKE '%pat%'
ILike(value, pat) ==
    \E i \in 0..(Len(value) - Len(pat)) :
        Lower(SubSeq(value, i + 1, i + Len(pat))) = Lower(pat)

\* mutant: the test is time_since_reset >= 86400
ResetDueAtDay(user) == \E r \in user : now - r.last_like_reset >= DaySeconds

\* reset_daily_likes: SELECT last_like_reset FROM users WHERE id = user_id
\* (user: the row read, if any), and the test time_since_reset > 86400
ResetDue(user) == \E r \in user : now - r.last_like_reset > DaySeconds

ProfilesResetSelect(s) ==
    LET user == {r \in users : r.id = req[s].args.user_id} IN
    /\ req[s].op = "get_profiles" /\ req[s].pc = "gp_reset_select"
    /\ req' = [req EXCEPT ![s].loc.user = user,
                          ![s].pc = IF ResetDue(user)
                                    THEN "gp_reset_update" ELSE "gp_interacted"]
    /\ UNCHANGED <<db, now, hist>>

\* UPDATE users SET daily_likes_used = 0, last_like_reset = CURRENT_TIMESTAMP
ResetUpdate(u) ==
    {IF r.id = u THEN [r EXCEPT !.daily_likes_used = 0, !.last_like_reset = now] ELSE r
     : r \in users}

ProfilesResetUpdate(s) ==
    /\ req[s].op = "get_profiles" /\ req[s].pc = "gp_reset_update"
    /\ users' = ResetUpdate(req[s].args.user_id)
    /\ req' = [req EXCEPT ![s].pc = "gp_interacted"]
    /\ UNCHANGED <<likes, chats, messages, user_tags, nextChatId, nextMsgId, now, hist>>

\* mutant: the likes of the requesting user are not read
InteractedSelfOnly(u) == {u}

\* SELECT to_user FROM likes WHERE from_user = user_id, plus user_id itself
Interacted(u) == {t \in UserIds : likes[<<u, t>>] > 0} \cup {u}

ProfilesInteracted(s) ==
    /\ req[s].op = "get_profiles" /\ req[s].pc = "gp_interacted"
    /\ req' = [req EXCEPT ![s].loc.interacted = Interacted(req[s].args.user_id),
                          ![s].pc = "gp_profiles"]
    /\ UNCHANGED <<db, now, hist>>

\* the rows the WHERE clause of the discovery query keeps
Eligible(a, interacted) ==
    {r \in users : /\ r.id \notin interacted
                   /\ r.age >= a.age_min /\ r.age <= a.age_max
                   /\ (a.city # <<>> => ILike(r.city, a.city))}

\* ORDER BY RANDOM() LIMIT n: the rows in any order, cut to n
RandomOrderings(rows, n) ==
    LET k == Min(Cardinality(rows), n) IN
    {q \in [1..k -> rows] : \A i, j \in 1..k : i # j => q[i] # q[j]}

ProfilesSelect(s) ==
    LET a == req[s].args IN
    /\ req[s].op = "get_profiles" /\ req[s].pc = "gp_profiles"
    /\ \E q \in RandomOrderings(Eligible(a, req[s].loc.interacted), ProfileLimit) :
          IF q = <<>>
          THEN req' = Answer(req, s, [status |-> 200, body |-> <<>>])
          ELSE req' = [req EXCEPT ![s].loc.profiles = q, ![s].pc = "gp_tags"]
    /\ UNCHANGED <<db, now, hist>>

\* the tags query and the response: each profile with its tags
WithTags(q) ==
    [i \in 1..Len(q) |->
        [id |-> q[i].id, name |-> q[i].name, age |-> q[i].age, city |-> q[i].city,
         bio |-> q[i].bio, tags |-> {t[2] : t \in {x \in user_tags : x[1] = q[i].id}}]]

ProfilesTags(s) ==
    /\ req[s].op = "get_profiles" /\ req[s].pc = "gp_tags"
    /\ req' = Answer(req, s, [status |-> 200, body |-> WithTags(req[s].loc.profiles)])
    /\ UNCHANGED <<db, now, hist>>

\* ----------------------------------------------------------- get_messages
\* GET /api/messages/<user_id_1>/<user_id_2>
MessagesReq(x, y, v) ==
    [op |-> "get_messages", pc |-> "gm_chat", valid |-> v,
     args |-> [user_id_1 |-> x, user_id_2 |-> y],
     loc |-> [chat |-> 0], h |-> NoHist, res |-> NoRes]

\* SELECT id FROM chats for the sorted pair
MessagesChat(s) ==
    LET a == req[s].args
        p == SortedPair(a.user_id_1, a.user_id_2)
    IN
    /\ req[s].op = "get_messages" /\ req[s].pc = "gm_chat"
    /\ IF ChatIdOf(p[1], p[2]) = 0
       THEN req' = Answer(req, s, [status |-> 200, body |-> <<>>])
       ELSE req' = [req EXCEPT ![s].loc.chat = ChatIdOf(p[1], p[2]), ![s].pc = "gm_msgs"]
    /\ UNCHANGED <<db, now, hist>>

\* mutant: ORDER BY created_at DESC
RECURSIVE OrderByCreatedDesc(_)
OrderByCreatedDesc(rows) ==
    IF rows = {} THEN <<>>
    ELSE LET first == CHOOSE m \in rows : \A o \in rows : m.created_at >= o.created_at
         IN <<first>> \o OrderByCreatedDesc(rows \ {first})

\* ORDER BY created_at ASC
RECURSIVE OrderByCreated(_)
OrderByCreated(rows) ==
    IF rows = {} THEN <<>>
    ELSE LET first == CHOOSE m \in rows : \A o \in rows : m.created_at <= o.created_at
         IN <<first>> \o OrderByCreated(rows \ {first})

\* SELECT from_user, text, created_at FROM messages WHERE chat_id = c
MessagesOf(c) ==
    LET rows == OrderByCreated({m \in messages : m.chat_id = c}) IN
    [i \in 1..Len(rows) |-> [from_user |-> rows[i].from_user, text |-> rows[i].text,
                             created_at |-> rows[i].created_at]]

MessagesSelect(s) ==
    /\ req[s].op = "get_messages" /\ req[s].pc = "gm_msgs"
    /\ req' = Answer(req, s, [status |-> 200, body |-> MessagesOf(req[s].loc.chat)])
    /\ UNCHANGED <<db, now, hist>>

\* ------------------------------------------------------------------ clock
Tick(d) ==
    /\ now' = now + d
    /\ UNCHANGED <<db, req, hist>>

TickSecond ==
    /\ now % DaySeconds < MaxSecs
    /\ Tick(1)

TickDay ==
    /\ now \div DaySeconds < MaxDays
    /\ Tick(DaySeconds)

\* ------------------------------------------------- concurrent requests
\* The like and chat routes for two users, on any thread at any time.
City1 == <<"M","o">>

ConcPairs == {p \in ConcUsers \X ConcUsers : p[1] # p[2]}

ConcRequests ==
    {LikeReq(p[1], p[2], d, TRUE) : p \in ConcPairs, d \in BOOLEAN}
    \cup {MessageReq(p[1], p[2], "hi", TRUE) : p \in ConcPairs}
    \cup {DeleteReq(u, TRUE) : u \in ConcUsers}
    \cup {CreateReq(u, "A", 20, City1, "", NoPhotoArg, <<>>, TRUE) : u \in ConcUsers}

BeginConc(s) == \E r \in ConcRequests : Begin(s, r, MaxConcMsgId)

Next ==
    \E s \in Slots :
        \/ BeginConc(s)
        \/ LikeStart(s)
        \/ LikeInsert(s)
        \/ LikeMutual(s)
        \/ LikeChat(s)
        \/ SendSelect(s)
        \/ SendCreate(s)
        \/ SendReselect(s)
        \/ SendInsert(s)
        \/ DeleteUser(s)
        \/ CreateUpsert(s)

Spec == Init /\ [][Next]_vars

\* ------------------------------------------------- one request at a time
\* a request begins on thread 1 when no request is running
BeginSeq(r) ==
    /\ \A s \in Slots : req[s].pc = "done"
    /\ Begin(1, r, MaxMsgId)

\* The same routes, each request carrying init data that passes the
\* Telegram check (valid) or does not.
AuthRequests ==
    {LikeReq(f, t, d, v) : f \in ConcUsers, t \in ConcUsers, d \in BOOLEAN, v \in BOOLEAN}
    \cup {MessageReq(f, t, "hi", v) : f \in ConcUsers, t \in ConcUsers, v \in BOOLEAN}
    \cup {DeleteReq(u, v) : u \in ConcUsers, v \in BOOLEAN}
    \cup {CreateReq(u, "A", 20, City1, "", NoPhotoArg, tg, v) :
            u \in ConcUsers, tg \in {<<>>, <<1>>}, v \in BOOLEAN}

BeginAuth == \E r \in AuthRequests : BeginSeq(r)

NextAuth ==
    \/ BeginAuth
    \/ \E s \in Slots :
        \/ LikeStart(s)
        \/ LikeInsert(s)
        \/ LikeMutual(s)
        \/ LikeChat(s)
        \/ SendSelect(s)
        \/ SendCreate(s)
        \/ SendReselect(s)
        \/ SendInsert(s)
        \/ DeleteUser(s)
        \/ CreateUpsert(s)
        \/ CreateTagDelete(s)
        \/ CreateTagInsert(s)

SpecAuth == Init /\ [][NextAuth]_vars

\* Profiles and photos: create_user with names, photos and tag lists,
\* upload_photo, get_photo, delete_user.
PhotoTexts ==
    { <<"Q","Q","=","=">>,              \* one byte, 65
      <<"x",",","Q","U","I","=">>,      \* a data: prefix, then two bytes, 65 66
      <<"Q","Q","=">>,                  \* stops inside a quad: b64decode raises
      <<"x",",">> }                     \* a prefix and no data: zero bytes
PhotoArgs == {NoPhotoArg} \cup {PhotoArg(t) : t \in PhotoTexts}
TagLists == {<<>>, <<1>>, <<2, 2>>, <<NumTags + 1>>}

ProfileRequests ==
    {CreateReq(u, nm, 20, City1, "", ph, tg, TRUE) :
        u \in ConcUsers, nm \in {"A", "B"}, ph \in {NoPhotoArg, PhotoArg(<<"Q","Q","=","=">>)},
        tg \in TagLists}
    \cup {DeleteReq(u, TRUE) : u \in ConcUsers}

BeginProfile == \E r \in ProfileRequests : BeginSeq(r)

NextProfile ==
    \/ BeginProfile
    \/ \E s \in Slots :
        \/ CreateUpsert(s)
        \/ CreateTagDelete(s)
        \/ CreateTagInsert(s)
        \/ DeleteUser(s)

SpecProfile == Init /\ [][NextProfile]_vars

PhotoRequests ==
    {CreateReq(u, "A", 20, City1, "", ph, <<>>, TRUE) : u \in ConcUsers, ph \in PhotoArgs}
    \cup {UploadReq(u, ph, TRUE) : u \in ConcUsers, ph \in PhotoArgs}
    \cup {PhotoReq(u, TRUE) : u \in ConcUsers}
    \cup {DeleteReq(u, TRUE) : u \in ConcUsers}

BeginPhoto == \E r \in PhotoRequests : BeginSeq(r)

NextPhoto ==
    \/ BeginPhoto
    \/ \E s \in Slots :
        \/ CreateUpsert(s)
        \/ UploadPhoto(s)
        \/ GetPhoto(s)
        \/ DeleteUser(s)

SpecPhoto == Init /\ [][NextPhoto]_vars

\* Message history: users come and go, like each other, write and read.
ChatRequests ==
    {CreateReq(u, "A", 20, City1, "", NoPhotoArg, <<>>, TRUE) : u \in ConcUsers}
    \cup {DeleteReq(u, TRUE) : u \in ConcUsers}
    \cup {LikeReq(f, t, FALSE, TRUE) : f \in ConcUsers, t \in ConcUsers}
    \cup {MessageReq(f, t, x, TRUE) : f \in ConcUsers, t \in ConcUsers, x \in {"hi", "yo"}}
    \cup {MessagesReq(x, y, TRUE) : x \in ConcUsers, y \in ConcUsers}

BeginChat == \E r \in ChatRequests : BeginSeq(r)

NextChat ==
    \/ BeginChat
    \/ \E s \in Slots :
        \/ CreateUpsert(s)
        \/ DeleteUser(s)
        \/ LikeStart(s)
        \/ LikeInsert(s)
        \/ LikeMutual(s)
        \/ LikeChat(s)
        \/ SendSelect(s)
        \/ SendCreate(s)
        \/ SendReselect(s)
        \/ SendInsert(s)
        \/ MessagesChat(s)
        \/ MessagesSelect(s)

SpecChat == Init /\ [][NextChat]_vars

\* Discovery: three users with ages and tags, likes and dislikes by user 1,
\* get_profiles by user 1, and the clock.
DiscoverRequests ==
    {CreateReq(1, "A", 20, City1, "", NoPhotoArg, tg, TRUE) : tg \in {<<>>, <<1>>}}
    \cup {CreateReq(u, "A", ag, City1, "", NoPhotoArg, tg, TRUE) :
            u \in UserIds \ {1}, ag \in {20, 30}, tg \in {<<>>, <<1>>}}
    \cup {LikeReq(1, t, d, TRUE) : t \in UserIds \ {1}, d \in BOOLEAN}
    \cup {ProfilesReq(1, 18, hi, ct, TRUE) : hi \in {25, 99}, ct \in {<<>>, <<"m">>}}

BeginDiscover == \E r \in DiscoverRequests : BeginSeq(r)

NextDiscover ==
    \/ BeginDiscover
    \/ TickSecond
    \/ TickDay
    \/ \E s \in Slots :
        \/ CreateUpsert(s)
        \/ CreateTagDelete(s)
        \/ CreateTagInsert(s)
        \/ LikeStart(s)
        \/ LikeInsert(s)
        \/ LikeMutual(s)
        \/ ProfilesResetSelect(s)
        \/ ProfilesResetUpdate(s)
        \/ ProfilesInteracted(s)
        \/ ProfilesSelect(s)
        \/ ProfilesTags(s)

SpecDiscover == Init /\ [][NextDiscover]_vars

\* ================================================================ claims
\* thread s answers its request in this step
Answers(s) == req[s].pc # "done" /\ req'[s].pc = "done"

IsLike(r) == r.op = "like_profile" /\ ~r.args.dislike

\* C1: a non-dislike like_profile answers match = true exactly when the
\* reverse like row existed at its reverse-row check, and whenever it
\* answers match = true the chat row of the sorted pair exists afterwards.
C1_MatchIffReverseRow ==
    [][\A s \in Slots :
          (IsLike(req[s]) /\ Answers(s)) =>
              /\ req'[s].res.match <=> req'[s].loc.mutual
              /\ req'[s].res.match =>
                    \E c \in chats' :
                        /\ c.user1_id = Min(req[s].args.from_user, req[s].args.to_user)
                        /\ c.user2_id = Max(req[s].args.from_user, req[s].args.to_user)]_vars

\* C2: a request whose init data fails the validation changes none of
\* users, likes, chats, messages, user_tags.
C2_InvalidInitDataChangesNothing ==
    [][\A s \in Slots :
          (req[s].pc # "done" /\ ~req[s].valid /\ req'[s] # req[s]) =>
              UNCHANGED <<users, likes, chats, messages, user_tags>>]_vars

\* C3: a chat row of users a and b (and so any message in it) exists only
\* if the like rows a -> b and b -> a existed at the same time before.
C3_ChatOnlyAfterMutualLike ==
    /\ \A c \in chats : <<c.user1_id, c.user2_id>> \in everMutual
    /\ \A m \in messages : \E c \in chats :
          c.id = m.chat_id /\ <<c.user1_id, c.user2_id>> \in everMutual

\* C5: under every interleaving of like_profile requests the likes table
\* holds at most one row per ordered pair (from_user, to_user).
C5_OneLikeRowPerPair == \A p \in DOMAIN likes : likes[p] <= 1

\* C10: like_profile(a -> b) and like_profile(b -> a), a # b, both users
\* existing, no dislike and no user deletion since either began: once both
\* have answered, one of them answered match = true and the chat row of
\* the pair exists.
C10_Pair(s, t) ==
    /\ s # t
    /\ IsLike(req[s]) /\ IsLike(req[t])
    /\ req[s].pc = "done" /\ req[t].pc = "done"
    /\ req[s].args.from_user = req[t].args.to_user
    /\ req[s].args.to_user = req[t].args.from_user
    /\ req[s].args.from_user # req[s].args.to_user
    /\ req[s].h.ok_start /\ req[t].h.ok_start
    /\ ~req[s].h.disturbed /\ ~req[t].h.disturbed

C10_NoLostMatch ==
    \A s, t \in Slots :
        C10_Pair(s, t) =>
            /\ req[s].res.match \/ req[t].res.match
            /\ ChatIdOf(Min(req[s].args.from_user, req[s].args.to_user),
                        Max(req[s].args.from_user, req[s].args.to_user)) # 0

\* two crossing likes whose statements interleaved: neither had found the
\* other's row when it began, both have answered
C10_Witness ==
    \E s, t \in Slots :
        /\ C10_Pair(s, t)
        /\ ~req[s].loc.existing /\ ~req[t].loc.existing
        /\ req[s].res.match /\ req[t].res.match

\* C4: the list get_profiles returns is sorted by tag overlap with the
\* requesting user: a profile never comes before one that shares more tags.
TagsOfUser(u) == {t[2] : t \in {x \in user_tags : x[1] = u}}
Overlap(profile, u) == Cardinality(profile.tags \cap TagsOfUser(u))

C4_SortedByTagOverlap ==
    \A s \in Slots :
        (req[s].op = "get_profiles" /\ req[s].pc = "done") =>
            \A i, j \in 1..Len(req[s].res.body) :
                i < j => Overlap(req[s].res.body[i], req[s].args.user_id)
                            >= Overlap(req[s].res.body[j], req[s].args.user_id)

\* C6: once a non-empty photo is stored for an existing user, get_photo
\* answers 200 with exactly the stored bytes, and it answers 404 only when
\* the user does not exist or has no photo.
HasPhoto(u) ==
    UserExists(u) /\ ~UserRow(u).photo_data.null /\ UserRow(u).photo_data.bytes # <<>>

C6_PhotoRoundTrip ==
    \A s \in Slots :
        (req[s].op = "get_photo" /\ req[s].pc = "done") =>
            LET u == req[s].args.user_id IN
            /\ HasPhoto(u) => /\ req[s].res.status = 200
                              /\ req[s].res.body = UserRow(u).photo_data.bytes
            /\ req[s].res.status = 404 => ~HasPhoto(u)

\* C7: at most one users row per id; the row's name, age, city and bio are
\* those of the latest create_user for that id that answered success; and
\* create_user leaves likes, chats and messages unchanged.
C7_RowsAreLatestSuccess ==
    /\ \A r1, r2 \in users : r1.id = r2.id => r1 = r2
    /\ \A r \in users : \E l \in lastOk :
          /\ l.id = r.id /\ l.name = r.name /\ l.age = r.age
          /\ l.city = r.city /\ l.bio = r.bio

C7_UpsertKeepsLatestSuccess ==
    [][/\ (\A s \in Slots : req'[s].pc = "done") => C7_RowsAreLatestSuccess'
       /\ \A s \in Slots :
             (req[s].op = "create_user" /\ req[s].pc # "done" /\ req'[s] # req[s])
                 => UNCHANGED <<likes, chats, messages>>]_vars

\* C8: when reset_daily_likes ends, the user's daily_likes_used is 0 and
\* last_like_reset the current time if last_like_reset was more than 86400
\* seconds in the past; with 86400 seconds or fewer, or no such user, both
\* are unchanged; nothing else is modified in either case.
InReset(r) == r.op = "get_profiles" /\ r.pc \in {"gp_reset_select", "gp_reset_update"}

C8_DailyLikeReset ==
    [][\A s \in Slots :
          InReset(req[s]) =>
              LET u == req[s].args.user_id
                  elapsed == now - UserRow(u).last_like_reset
              IN
              /\ UNCHANGED <<likes, chats, messages, user_tags>>
              /\ \A r \in users : r.id # u => r \in users'
              /\ \A r \in users' : r.id # u => r \in users
              /\ req'[s].pc = "gp_reset_update" => UNCHANGED users
              /\ req'[s].pc = "gp_interacted" =>
                    IF UserExists(u) /\ elapsed > 86400
                    THEN users' = (users \ {UserRow(u)}) \cup
                            {[UserRow(u) EXCEPT !.daily_likes_used = 0,
                                                !.last_like_reset = now]}
                    ELSE users' = users]_vars

\* a reset that took place: the row read was more than a day old and the
\* row now carries the current time
C8_Witness ==
    \E s \in Slots :
        /\ req[s].op = "get_profiles" /\ req[s].pc = "gp_interacted"
        /\ \E r \in req[s].loc.user :
              /\ now - r.last_like_reset > 86400
              /\ UserExists(r.id)
              /\ UserRow(r.id).last_like_reset = now
              /\ UserRow(r.id).daily_likes_used = 0

\* C9: message history.
Entry(m) == [from_user |-> m.from_user, text |-> m.text, created_at |-> m.created_at]
InBody(body, e) == \E i \in 1..Len(body) : body[i] = e

\* what get_messages answers for the ids in this order, on the tables as
\* they are
GetMessages(x, y) ==
    IF ChatIdOf(Min(x, y), Max(x, y)) = 0 THEN <<>>
    ELSE MessagesOf(ChatIdOf(Min(x, y), Max(x, y)))

MessageHistory(accepted) ==
    \A s \in Slots :
        (req[s].op = "get_messages" /\ req[s].pc = "done") =>
            LET x == req[s].args.user_id_1
                y == req[s].args.user_id_2
                body == req[s].res.body
            IN
            /\ \A m \in accepted :
                  (m.u1 = Min(x, y) /\ m.u2 = Max(x, y)) => InBody(body, Entry(m.msg))
            /\ body = GetMessages(y, x)
            /\ \A i, j \in 1..Len(body) : i < j => body[i].created_at <= body[j].created_at
            /\ \A i \in 1..Len(body) : \E m \in messages :
                  /\ Entry(m) = body[i]
                  /\ \E c \in chats : /\ c.id = m.chat_id
                                      /\ c.user1_id = Min(x, y) /\ c.user2_id = Max(x, y)

RacingCreate(s) ==
    /\ req[s].op = "send_message" /\ req[s].pc = "sm_create"
    /\ req'[s].pc # "sm_create"
    /\ ChatIdOf(Min(req[s].args.from_user, req[s].args.to_user),
                Max(req[s].args.from_user, req[s].args.to_user)) # 0

CanonicalChats ==
    /\ \A c \in chats : c.user1_id <= c.user2_id
    /\ \A c, d \in chats :
          ({c.user1_id, c.user2_id} = {d.user1_id, d.user2_id}) => c = d

\* C11: under every interleaving of like_profile and send_message requests
\* every chats row has user1_id <= user2_id and no two chats rows are of the
\* same unordered pair of users; a send_message that reaches its chat insert
\* when another request has created the chat of its pair answers 400 and
\* leaves chats as it was.
C11_ChatCanonicalForm ==
    /\ []CanonicalChats
    /\ [][\A s \in Slots :
            RacingCreate(s) => /\ req'[s].pc = "done"
                               /\ req'[s].res.status = 400
                               /\ chats' = chats]_vars

\* a send_message with the larger id first lost the race for the chat of
\* its pair: it was answered 400 for the uniqueness constraint, and the one
\* chat row of the pair is in canonical order
C11_Witness ==
    \E s \in Slots :
        /\ req[s].op = "send_message" /\ req[s].pc = "done"
        /\ req[s].args.from_user > req[s].args.to_user
        /\ req[s].loc.chat = 0
        /\ req[s].res.status = 400 /\ req[s].res.error = "UniqueViolation"
        /\ \E c \in chats : /\ c.user1_id = req[s].args.to_user
                            /\ c.user2_id = req[s].args.from_user

\* C12: profile discovery exclusion.
BodyIds(body) == {body[i].id : i \in 1..Len(body)}

\* the user exists, is not the requester, and passes the age and city filter
\* of the request
PassesFilter(a, t) ==
    /\ t # a.user_id
    /\ UserExists(t)
    /\ UserRow(t).age >= a.age_min /\ UserRow(t).age <= a.age_max
    /\ (a.city # <<>> => ILike(UserRow(t).city, a.city))

====
